---- MODULE Spec2Model ----
(***************************************************************************)
(* A model of benchmark_tool/benchmark.py: the token counter, the result   *)
(* tracker, the command runner, the two workflow drivers, the report       *)
(* printer and the main script.                                            *)
(*                                                                         *)
(* Text is a sequence of chunks.  A chunk is either one whitespace         *)
(* character (" " or "\n") or a run of non-whitespace characters that the  *)
(* program never takes apart ("grep", "SysUserServiceImpl.java", ...).     *)
(* Time is an integer clock whose unit is 0.01 s.                          *)
(***************************************************************************)
EXTENDS Integers, Sequences, FiniteSets, TLC

\* ------------------------------------------------------------------ bounds
\* longest text handed to count_tokens on its own
MaxLen == 4
\* most steps added to a tracker by direct add_step calls
MaxSteps == 3
\* last value of the wall clock
MaxClock == 1
\* longest duration handed to add_step on its own
MaxDur == 1

VARIABLES
    entry,          \* the function at the bottom of the call stack
    pc,             \* position of the single thread
    exists,         \* os.path.exists(target_dir)
    has_tiktoken,   \* whether `import tiktoken` succeeded at startup
    exit_status,    \* -1 while running, else the process's exit status
    runner,         \* <<>> or <<Runner>>
    heap,           \* the BenchmarkResult objects, by identity
    res,            \* the running driver's local `res`
    base_res,       \* main's base_res
    exp_res,        \* main's exp_res
    target_file,    \* run_baseline's target_file
    line_num,       \* run_baseline's line_num
    out1,           \* run_baseline's out1
    out2,           \* run_baseline's out2
    now,            \* time.time()
    start,          \* run_cmd's `start`
    running,        \* the external commands executing right now
    cmd_result,     \* <<>> or <<what the last run_cmd got and returned>>
    issued,         \* history: the commands each driver has issued, in order
    report,         \* <<>> or <<the rows print_report printed>>
    stdout,         \* the kinds of lines printed so far
    args,           \* arguments of a function called on its own
    ret             \* <<>> or <<its return value>>

vars == <<entry, pc, exists, has_tiktoken, exit_status, runner, heap, res,
          base_res, exp_res, target_file, line_num,
          out1, out2, now, start, running,
          cmd_result, issued, report, stdout, args, ret>>

\* --------------------------------------------------------------- str helpers
NL == "\n"
JAVA == "SysUserServiceImpl.java"

\* str.isspace() of a chunk
IsSpace(c) == c \in {" ", NL}

\* len() of a chunk, in characters
ChunkLen(c) ==
    CASE c = JAVA -> 23
      [] c = "[STDERR]" -> 8
      [] c = "[Errno" -> 6
      [] c = "./d/" -> 4
      [] c = "12" -> 2
      [] c = "2]" -> 2
      [] OTHER -> 1

\* len(text): the characters of chunks lo..hi of the text, then of all of it
RECURSIVE LenBetween(_, _, _)
LenBetween(text, lo, hi) ==
    IF lo > hi THEN 0
    ELSE IF lo = hi THEN ChunkLen(text[lo])
    ELSE LET mid == (lo + hi) \div 2
         IN  LenBetween(text, lo, mid) + LenBetween(text, mid + 1, hi)

len(text) == LenBetween(text, 1, Len(text))

\* text.split(): the maximal runs of non-whitespace, in order
split(text) ==
    LET n == Len(text)
        starts == {i \in 1..n : /\ ~IsSpace(text[i])
                                 /\ (i = 1 \/ IsSpace(text[i - 1]))}
        kth(k) == CHOOSE i \in starts :
                      Cardinality({j \in starts : j < i}) = k - 1
        last(i) == CHOOSE j \in i..n :
                       /\ \A m \in i..j : ~IsSpace(text[m])
                       /\ (j = n \/ IsSpace(text[j + 1]))
    IN  [k \in 1..Cardinality(starts) |-> SubSeq(text, kth(k), last(kth(k)))]

\* text.split('\n'): n separators give n + 1 pieces, empty ones included
RECURSIVE SplitLinesFrom(_, _, _)
SplitLinesFrom(text, cur, acc) ==
    IF text = <<>>
    THEN Append(acc, cur)
    ELSE IF Head(text) = NL
         THEN SplitLinesFrom(Tail(text), <<>>, Append(acc, cur))
         ELSE SplitLinesFrom(Tail(text), Append(cur, Head(text)), acc)

split_lines(text) == SplitLinesFrom(text, <<>>, <<>>)

\* text.lstrip(), text.rstrip(), text.strip()
RECURSIVE lstrip(_)
lstrip(text) ==
    IF text # <<>> /\ IsSpace(Head(text)) THEN lstrip(Tail(text)) ELSE text

RECURSIVE rstrip(_)
rstrip(text) ==
    IF text # <<>> /\ IsSpace(text[Len(text)])
    THEN rstrip(SubSeq(text, 1, Len(text) - 1))
    ELSE text

strip(text) == rstrip(lstrip(text))

\* text.endswith('SysUserServiceImpl.java'): no other chunk ends in that name
endswith_java(text) == text # <<>> /\ text[Len(text)] = JAVA

\* ------------------------------------------------------------- count_tokens
\* len(enc.encode(text)): the byte-pair encoding is outside the repository;
\* it is abstracted as one token per chunk
count_tokens_tiktoken(text) == Len(text)

\* round(len(text.split()) * 1.3), Python's round (half to even)
count_tokens_rounded(text) ==
    IF text = <<>> THEN 0
    ELSE LET n == 13 * Len(split(text))
             q == n \div 10
             r == n % 10
         IN  IF r > 5 \/ (r = 5 /\ q % 2 = 1) THEN q + 1 ELSE q

\* int(len(text.split()) * 1.3): int() truncates, and the product is >= 0
count_tokens_fallback(text) ==
    IF text = <<>> THEN 0
    ELSE (13 * Len(split(text))) \div 10

count_tokens(text) ==
    IF has_tiktoken THEN count_tokens_tiktoken(text)
    ELSE count_tokens_fallback(text)

\* ---------------------------------------------------------- BenchmarkResult
TrackerIds == {"A", "B"}

\* a tracker id that refers to no object
NoTracker == "None"

\* BenchmarkResult.__init__
NewTracker(name) ==
    [created |-> TRUE, name |-> name, steps |-> <<>>,
     total_tokens |-> 0, total_time |-> 0]

\* an identity no object has been constructed for
NotCreated ==
    [created |-> FALSE, name |-> "", steps |-> <<>>,
     total_tokens |-> 0, total_time |-> 0]

\* add_step that overwrites the running totals instead of adding to them
add_step_overwrite(tr, tool, command, output, duration) ==
    LET tokens == count_tokens(output)
    IN  [tr EXCEPT !.steps = Append(@, [tool |-> tool, command |-> command,
                                        tokens |-> tokens,
                                        duration |-> duration,
                                        output_len |-> len(output)]),
                   !.total_tokens = tokens,
                   !.total_time = duration]

\* add_step that puts the new step in front of the list
add_step_prepend(tr, tool, command, output, duration) ==
    LET tokens == count_tokens(output)
    IN  [tr EXCEPT !.steps = <<[tool |-> tool, command |-> command,
                                tokens |-> tokens,
                                duration |-> duration,
                                output_len |-> len(output)]>> \o @,
                   !.total_tokens = @ + tokens,
                   !.total_time = @ + duration]

\* BenchmarkResult.add_step: the tracker after the call
add_step(tr, tool, command, output, duration) ==
    LET tokens == count_tokens(output)
    IN  [tr EXCEPT !.steps = Append(@, [tool |-> tool, command |-> command,
                                        tokens |-> tokens,
                                        duration |-> duration,
                                        output_len |-> len(output)]),
                   !.total_tokens = @ + tokens,
                   !.total_time = @ + duration]

\* ---------------------------------------------------------------- commands
\* line 71
CmdFind == <<"find", " ", ".", " ", "-name", " ", JAVA>>

\* line 75
DefaultTarget ==
    <<"ruoyi-system/src/main/java/com/ruoyi/system/service/impl/", JAVA>>

\* line 81
CmdGrepDef(file) ==
    <<"grep", " ", "-n", " ", "'List<SysUser>", " ", "selectUserList'", " ">>
        \o file

\* lines 91 and 102
CmdCat(file) == <<"cat", " ">> \o file

\* line 95
CmdGrepCallers ==
    <<"grep", " ", "-r", " ", "'selectUserList'", " ", ".", " ", "|", " ",
      "head", " ", "-n", " ", "20">>

\* line 100
CallerFile ==
    <<"ruoyi-admin/src/main/java/com/ruoyi/web/controller/system/SysUserController.java">>

\* line 116
CmdQuery ==
    <<"git-ai", " ", "ai", " ", "query", " ", "'SysUserServiceImpl", " ",
      "selectUserList'">>

\* line 120
CmdCallers ==
    <<"git-ai", " ", "ai", " ", "graph", " ", "callers", " ",
      "selectUserList">>

\* line 124
CmdChain ==
    <<"git-ai", " ", "ai", " ", "graph", " ", "chain", " ", "selectUserList">>

\* line 129
CmdSemantic ==
    <<"git-ai", " ", "ai", " ", "semantic", " ", "'How", " ", "does", " ",
      "selectUserList", " ", "work", " ", "in", " ", "SysUserServiceImpl?'",
      " ", "--topk", " ", "2">>

\* the positions at which a driver calls runner.run_cmd
BaselinePcs == {"b1", "b2", "b3", "b4", "b5"}
GitAiPcs == {"g1", "g2", "g3", "g4"}
CmdPcs == BaselinePcs \cup GitAiPcs

\* the command string the driver passes to run_cmd at position p
CmdAt(p) ==
    CASE p = "b1" -> CmdFind
      [] p = "b2" -> CmdGrepDef(target_file)
      [] p = "b3" -> CmdCat(target_file)
      [] p = "b4" -> CmdGrepCallers
      [] p = "b5" -> CmdCat(CallerFile)
      [] p = "g1" -> CmdQuery
      [] p = "g2" -> CmdCallers
      [] p = "g3" -> CmdChain
      [] p = "g4" -> CmdSemantic

\* a driver that runs a command again when it printed nothing
AfterCmdRetryEmpty(p, output) ==
    IF output = <<>> THEN p
    ELSE CASE p = "b1" -> "b2"
           [] p = "b2" -> "b3"
           [] p = "b3" -> "b4"
           [] p = "b4" -> "b5"
           [] p = "b5" -> "b_return"
           [] p = "g1" -> "g2"
           [] p = "g2" -> "g3"
           [] p = "g3" -> "g4"
           [] p = "g4" -> "g_return"

\* the statement the driver goes on with when the run_cmd call at position p
\* has returned `output`: the next one, whatever the output
AfterCmd(p, output) ==
    CASE p = "b1" -> "b2"
      [] p = "b2" -> "b3"
      [] p = "b3" -> "b4"
      [] p = "b4" -> "b5"
      [] p = "b5" -> "b_return"
      [] p = "g1" -> "g2"
      [] p = "g2" -> "g3"
      [] p = "g3" -> "g4"
      [] p = "g4" -> "g_return"

\* ------------------------------------------------------------------ Runner
\* what subprocess.run did: it returned a result, or it raised
Done(out, err) == [raised |-> FALSE, stdout |-> out, stderr |-> err, msg |-> <<>>]
Raised(msg) == [raised |-> TRUE, stdout |-> <<>>, stderr |-> <<>>, msg |-> msg]

\* run_cmd that appends the [STDERR] block even when stderr is empty
run_cmd_output_always_stderr(o) ==
    IF o.raised THEN o.msg
    ELSE o.stdout \o <<NL, "[STDERR]", NL>> \o o.stderr

\* run_cmd's `output` (lines 47-54)
run_cmd_output(o) ==
    IF o.raised THEN o.msg
    ELSE IF o.stderr # <<>>
         THEN o.stdout \o <<NL, "[STDERR]", NL>> \o o.stderr
         ELSE o.stdout

\* --------------------------------------------------------------- run_baseline
\* target_file chosen without stripping the lines before the test
pick_target_file_unstripped(found) ==
    LET lines == split_lines(found)
        paths == SelectSeq(lines, LAMBDA line : endswith_java(line))
    IN  IF paths = <<>> THEN DefaultTarget ELSE strip(paths[1])

\* lines 72-77: target_file from the output of step 1
pick_target_file(found) ==
    LET lines == split_lines(found)
        paths == SelectSeq(lines, LAMBDA line : endswith_java(strip(line)))
    IN  IF paths = <<>> THEN DefaultTarget ELSE strip(paths[1])

\* int() of a chunk of digits
DigitsValue(c) == CASE c = "12" -> 12 [] c = "2" -> 2 [] OTHER -> -1

\* lines 83-86: re.search(r'^(\d+):', grepped) matches at the start of the text
pick_line_num(grepped) ==
    IF Len(grepped) >= 2 /\ DigitsValue(grepped[1]) >= 0 /\ grepped[2] = ":"
    THEN DigitsValue(grepped[1])
    ELSE 1

\* -------------------------------------------------------------- print_report
\* a float, kept as the exact fraction n / d with d > 0; zd marks a value
\* whose computation raised ZeroDivisionError
Q(n, d) == [n |-> n, d |-> d, zd |-> FALSE]
ZeroDivision == [n |-> 0, d |-> 1, zd |-> TRUE]

\* a - b
QSub(a, b) ==
    IF a.zd \/ b.zd THEN ZeroDivision
    ELSE Q(a.n * b.d - b.n * a.d, a.d * b.d)

\* a / b
QDiv(a, b) ==
    IF a.zd \/ b.zd \/ b.n = 0 THEN ZeroDivision
    ELSE IF b.n > 0 THEN Q(a.n * b.d, a.d * b.n)
         ELSE Q((0 - a.n) * b.d, a.d * (0 - b.n))

\* a * 100
QTimes100(a) == IF a.zd THEN ZeroDivision ELSE Q(a.n * 100, a.d)

\* round(|n| * scale / d) with ties to even, signed: the digits that
\* f"{x:.1f}" (scale 10) prints, as an integer number of tenths
Fmt(a, scale) ==
    LET m == (IF a.n < 0 THEN 0 - a.n ELSE a.n) * scale
        q == m \div a.d
        r == m % a.d
        up == 2 * r > a.d \/ (2 * r = a.d /\ q % 2 = 1)
        mag == IF up THEN q + 1 ELSE q
    IN  IF a.n < 0 THEN 0 - mag ELSE mag

\* the percentage change without the zero guard
pct_change_unguarded(new, base) ==
    QTimes100(QDiv(QSub(new, base), base))

\* the percentage change taken relative to the new value
pct_change_of_new(new, base) ==
    IF base.n > 0 THEN QTimes100(QDiv(QSub(new, base), new)) ELSE Q(0, 1)

\* lines 144, 149, 163: (new - base) / base * 100 if base > 0 else 0
pct_change(new, base) ==
    IF base.n > 0 THEN QTimes100(QDiv(QSub(new, base), base)) ELSE Q(0, 1)

\* lines 154-155: tok / steps if steps > 0 else 0
density(tok, steps) ==
    IF steps > 0 THEN QDiv(Q(tok, 1), Q(steps, 1)) ELSE Q(0, 1)

\* lines 141-163: the numbers print_report computes from the two trackers
report_values(baseline, experimental) ==
    LET base_tok == baseline.total_tokens
        exp_tok == experimental.total_tokens
        base_steps == Len(baseline.steps)
        exp_steps == Len(experimental.steps)
        base_density == density(base_tok, base_steps)
        exp_density == density(exp_tok, exp_steps)
    IN  [base_tok |-> base_tok, exp_tok |-> exp_tok,
         diff_tok |-> pct_change(Q(exp_tok, 1), Q(base_tok, 1)),
         base_steps |-> base_steps, exp_steps |-> exp_steps,
         diff_steps |-> pct_change(Q(exp_steps, 1), Q(base_steps, 1)),
         base_density |-> base_density, exp_density |-> exp_density,
         diff_density |-> pct_change(exp_density, base_density)]

\* whether computing the numbers raised ZeroDivisionError
report_raises(v) ==
    \/ v.diff_tok.zd \/ v.diff_steps.zd \/ v.diff_density.zd
    \/ v.base_density.zd \/ v.exp_density.zd

\* lines 165-181: the four rows, each cell as it is formatted (both renderings
\* print the same cells); .1f cells are tenths, .2f cells are clock units
report_rows(baseline, experimental) ==
    LET v == report_values(baseline, experimental)
    IN  [tokens |-> <<v.base_tok, v.exp_tok, Fmt(v.diff_tok, 10)>>,
         steps |-> <<v.base_steps, v.exp_steps, Fmt(v.diff_steps, 10)>>,
         density |-> <<Fmt(v.base_density, 10), Fmt(v.exp_density, 10),
                       Fmt(v.diff_density, 10)>>,
         time |-> <<baseline.total_time, experimental.total_time,
                    experimental.total_time - baseline.total_time>>]

\* ------------------------------------------------------------ common pieces
\* every text of at most n chunks over the alphabet
RECURSIVE TextsUpTo(_, _)
TextsUpTo(alphabet, n) ==
    IF n = 0 THEN {<<>>}
    ELSE LET shorter == TextsUpTo(alphabet, n - 1)
         IN  shorter \cup {Append(t, c) : t \in shorter, c \in alphabet}

\* the state of everything no function has touched yet
Untouched ==
    /\ exit_status = -1
    /\ res = NoTracker
    /\ target_file = <<>>
    /\ line_num = 0
    /\ out1 = <<>>
    /\ out2 = <<>>
    /\ now = 0
    /\ start = 0
    /\ running = <<>>
    /\ cmd_result = <<>>
    /\ issued = [t \in TrackerIds |-> <<>>]
    /\ report = <<>>
    /\ ret = <<>>

\* no Runner constructed, no tracker bound to main's variables
NoObjects ==
    /\ runner = <<>>
    /\ base_res = NoTracker
    /\ exp_res = NoTracker

\* the line the module prints when it is loaded (lines 12 and 14)
StartupLine == IF has_tiktoken THEN "System:tiktoken" ELSE "System:fallback"

\* --------------------------------------------- count_tokens called on its own
CountInit ==
    /\ Untouched
    /\ NoObjects
    /\ entry = "count_tokens"
    /\ pc = "ready"
    /\ exists \in BOOLEAN
    /\ has_tiktoken \in BOOLEAN
    /\ stdout = <<StartupLine>>
    /\ heap = [t \in TrackerIds |-> NotCreated]
    /\ args \in {<<text>> : text \in TextsUpTo({"x", " ", NL}, MaxLen)}

CountCall ==
    /\ entry = "count_tokens"
    /\ pc = "ready"
    /\ ret' = <<count_tokens(args[1])>>
    /\ pc' = "returned"
    /\ UNCHANGED <<entry, exists, has_tiktoken, exit_status, runner, heap,
                   res, base_res, exp_res, target_file, line_num,
                   out1, out2, now, start,
                   running, cmd_result, issued, report, stdout, args>>

CountNext == CountCall

SpecCount == CountInit /\ [][CountNext]_vars

\* C7 as stated: the fallback counter returns round(word_count * 1.3), and 0
\* on empty text
C7_FallbackRounds ==
    (entry = "count_tokens" /\ pc = "returned" /\ ~has_tiktoken) =>
        ret[1] = count_tokens_rounded(args[1])

\* C7 amended: the fallback counter returns word_count * 1.3 truncated to an
\* integer (the floor of 13 * word_count / 10), and 0 on empty text
C7_FallbackTruncates ==
    (entry = "count_tokens" /\ pc = "returned" /\ ~has_tiktoken) =>
        /\ ret[1] = (13 * Len(split(args[1]))) \div 10
        /\ (args[1] = <<>> => ret[1] = 0)

\* the fallback counter has returned for a text of two words, where rounding
\* and truncation differ
C7_Witness ==
    /\ entry = "count_tokens" /\ pc = "returned" /\ ~has_tiktoken
    /\ Len(split(args[1])) = 2
    /\ ret[1] = 2

\* ------------------------------------------------ add_step called on its own
\* the (tool, command) pairs and the outputs handed to add_step
StepCommands == {<<"ls">>, <<"cat", " ", "f">>}
StepOutputs == {<<>>, <<"x", NL>>, <<"x", " ", "x", " ", "x">>}

TrackerInit ==
    /\ Untouched
    /\ NoObjects
    /\ entry = "add_step"
    /\ pc = "ready"
    /\ exists \in BOOLEAN
    /\ has_tiktoken \in BOOLEAN
    /\ stdout = <<StartupLine>>
    /\ args = <<>>
    /\ heap = [t \in TrackerIds |->
                  IF t = "A" THEN NewTracker("tracker") ELSE NotCreated]

AddStepCall ==
    /\ entry = "add_step"
    /\ pc = "ready"
    /\ \E t \in TrackerIds, command \in StepCommands,
          output \in StepOutputs, duration \in 0..MaxDur :
          /\ heap[t].created
          /\ Len(heap[t].steps) < MaxSteps
          /\ heap' = [heap EXCEPT ![t] =
                         add_step(@, split(command)[1], command, output,
                                  duration)]
          /\ args' = <<t, command, output, duration>>
          /\ stdout' = Append(stdout, "Step")
    /\ UNCHANGED <<entry, pc, exists, has_tiktoken, exit_status, runner, res,
                   base_res, exp_res, target_file, line_num,
                   out1, out2, now, start,
                   running, cmd_result, issued, report, ret>>

TrackerNext == AddStepCall

SpecTracker == TrackerInit /\ [][TrackerNext]_vars

\* sum of a field over the steps of a tracker
RECURSIVE SumOf(_, _)
SumOf(steps, field) ==
    IF steps = <<>> THEN 0
    ELSE (IF field = "tokens" THEN Head(steps).tokens
          ELSE Head(steps).duration) + SumOf(Tail(steps), field)

\* C1: after any sequence of add_step calls on a fresh tracker, total_tokens
\* is the sum of the steps' token counts and total_time the sum of the steps'
\* durations
C1_TotalsAreSums ==
    \A t \in TrackerIds :
        /\ heap[t].total_tokens = SumOf(heap[t].steps, "tokens")
        /\ heap[t].total_time = SumOf(heap[t].steps, "duration")

\* a tracker holds three steps with non-zero totals, the last step adding
\* tokens and time to totals that were non-zero already
C1_Witness ==
    /\ entry = "add_step"
    /\ Len(heap["A"].steps) = 3
    /\ heap["A"].steps[1].tokens > 0 /\ heap["A"].steps[3].tokens > 0
    /\ heap["A"].steps[1].duration > 0 /\ heap["A"].steps[3].duration > 0
    /\ heap["A"].total_tokens > heap["A"].steps[3].tokens

\* ------------------------------------------------- the script and its drivers
\* the identity of the tracker each driver constructs (lines 65 and 110)
BaselineTracker == "A"
SharedTracker == "A"
GitAiTracker == "B"

\* what the external commands may do when every kind of outcome is explored
FindStdouts ==
    { <<>>,
      <<"./d/", JAVA, NL>>,
      <<" ", "x", JAVA, " ", NL, "./d/", JAVA, NL>>,
      <<"x", NL, "./d/", JAVA, NL>>,
      <<"x", NL>>,
      <<JAVA, "x", NL>> }

WideOutcomes(p) ==
    IF p = "b1"
    THEN {Done(out, err) : out \in FindStdouts, err \in {<<>>, <<"x", NL>>}}
             \cup {Raised(<<"[Errno", " ", "2]">>)}
    ELSE { Done(IF p = "b2" THEN <<"12", ":", "x", NL>>
                ELSE <<"x", " ", "x", NL>>, <<>>),
           Done(<<>>, <<>>),
           Done(<<>>, <<"x", NL>>),
           Raised(<<"[Errno", " ", "2]">>) }

\* what they may do when the whole script is explored
NarrowOutcomes(p) ==
    IF p = "b1"
    THEN {Done(<<"./d/", JAVA, NL>>, <<>>), Done(<<>>, <<"x", NL>>),
          Raised(<<"[Errno", " ", "2]">>)}
    ELSE {Done(<<"x", " ", "x", NL>>, <<>>), Raised(<<"[Errno", " ", "2]">>)}

\* a script that never looks whether the directory exists
target_missing_unchecked == FALSE

\* line 188: not os.path.exists(target_dir)
target_missing == ~exists

\* lines 184-192
main_check ==
    /\ entry = "main"
    /\ pc = "main"
    /\ IF target_missing
       THEN /\ stdout' = Append(stdout, "Error")
            /\ exit_status' = 1
            /\ pc' = "exited"
            /\ UNCHANGED runner
       ELSE /\ runner' = <<[cwd |-> "target_dir"]>>
            /\ stdout' = Append(stdout, "Target")
            /\ pc' = "b0"
            /\ UNCHANGED exit_status
    /\ UNCHANGED <<entry, exists, has_tiktoken, heap, res, base_res, exp_res,
                   target_file, line_num,
                   out1, out2, now, start, running, cmd_result,
                   issued, report, args, ret>>

\* lines 62-70
run_baseline_begin ==
    /\ pc = "b0"
    /\ runner # <<>>
    /\ heap' = [heap EXCEPT ![BaselineTracker] =
                   NewTracker("Baseline (grep/cat)")]
    /\ res' = BaselineTracker
    /\ stdout' = stdout \o <<"Banner", "Goal">>
    /\ pc' = "b1"
    /\ UNCHANGED <<entry, exists, has_tiktoken, exit_status, runner, base_res,
                   exp_res, target_file, line_num,
                   out1, out2, now, start, running,
                   cmd_result, issued, report, args, ret>>

\* lines 107-113
run_git_ai_begin ==
    /\ pc = "g0"
    /\ runner # <<>>
    /\ heap' = [heap EXCEPT ![GitAiTracker] =
                   NewTracker("Experimental (git-ai)")]
    /\ res' = GitAiTracker
    /\ stdout' = stdout \o <<"Banner", "Goal">>
    /\ pc' = "g1"
    /\ UNCHANGED <<entry, exists, has_tiktoken, exit_status, runner, base_res,
                   exp_res, target_file, line_num,
                   out1, out2, now, start, running,
                   cmd_result, issued, report, args, ret>>

\* lines 44-49: run_cmd up to the moment subprocess.run has spawned the shell
run_cmd_spawn ==
    /\ pc \in CmdPcs
    /\ running = <<>>
    /\ running' = Append(running, CmdAt(pc))
    /\ start' = now
    /\ issued' = [issued EXCEPT ![res] = Append(@, CmdAt(pc))]
    /\ cmd_result' = <<>>
    /\ stdout' = Append(stdout, "Running")
    /\ UNCHANGED <<entry, pc, exists, has_tiktoken, exit_status, runner, heap,
                   res, base_res, exp_res, target_file, line_num,
                   out1, out2, now, report,
                   args, ret>>

\* the wall clock advances while the thread waits in subprocess.run
tick ==
    /\ running # <<>>
    /\ now < MaxClock
    /\ now' = now + 1
    /\ UNCHANGED <<entry, pc, exists, has_tiktoken, exit_status, runner, heap,
                   res, base_res, exp_res, target_file, line_num,
                   out1, out2, start,
                   running, cmd_result, issued, report, stdout, args, ret>>

\* lines 49-59: subprocess.run ends with outcome o, run_cmd records the step
\* and returns; then the driver's statements up to its next run_cmd call
\* (lines 72-77 after step 1, lines 83-86 after step 2)
run_cmd_complete(o) ==
    /\ pc \in CmdPcs
    /\ running # <<>>
    /\ LET cmd_str == running[1]
           output == run_cmd_output(o)
           duration == now - start
           tool_name == split(cmd_str)[1]
       IN  /\ heap' = [heap EXCEPT ![res] =
                          add_step(@, tool_name, cmd_str, output, duration)]
           /\ cmd_result' = <<[outcome |-> o, output |-> output,
                               tracker |-> res]>>
           /\ target_file' = IF pc = "b1" THEN pick_target_file(output)
                             ELSE target_file
           /\ line_num' = IF pc = "b2" THEN pick_line_num(output)
                          ELSE line_num
           /\ out1' = IF pc = "b1" THEN output ELSE out1
           /\ out2' = IF pc = "b2" THEN output ELSE out2
           /\ pc' = AfterCmd(pc, output)
           /\ stdout' = stdout \o <<"Step">>
                  \o (IF pc = "b1" /\ pick_target_file(output) = DefaultTarget
                      THEN <<"NotFound">> ELSE <<>>)
                  \o (IF AfterCmd(pc, output) \in CmdPcs THEN <<"Goal">>
                      ELSE <<>>)
    /\ running' = <<>>
    /\ UNCHANGED <<entry, exists, has_tiktoken, exit_status, runner, res,
                   base_res, exp_res, now, start, issued, report, args, ret>>

\* line 104, and line 197 when main is the caller
run_baseline_return ==
    /\ pc = "b_return"
    /\ IF entry = "main"
       THEN /\ base_res' = res
            /\ pc' = "g0"
            /\ UNCHANGED ret
       ELSE /\ ret' = <<res>>
            /\ pc' = "returned"
            /\ UNCHANGED base_res
    /\ UNCHANGED <<entry, exists, has_tiktoken, exit_status, runner, heap, res,
                   exp_res, target_file, line_num,
                   out1, out2, now, start, running,
                   cmd_result, issued, report, stdout, args>>

\* line 131, and line 198 when main is the caller
run_git_ai_return ==
    /\ pc = "g_return"
    /\ IF entry = "main"
       THEN /\ exp_res' = res
            /\ pc' = "report"
            /\ UNCHANGED ret
       ELSE /\ ret' = <<res>>
            /\ pc' = "returned"
            /\ UNCHANGED exp_res
    /\ UNCHANGED <<entry, exists, has_tiktoken, exit_status, runner, heap, res,
                   base_res, target_file, line_num,
                   out1, out2, now, start, running,
                   cmd_result, issued, report, stdout, args>>

\* lines 133-181 (and line 200): an uncaught ZeroDivisionError ends the process
print_report ==
    /\ pc = "report"
    /\ LET baseline == heap[base_res]
           experimental == heap[exp_res]
       IN  IF report_raises(report_values(baseline, experimental))
           THEN /\ pc' = "raised"
                /\ exit_status' = 1
                /\ stdout' = stdout \o <<"ReportHeader", "Traceback">>
                /\ UNCHANGED report
           ELSE /\ pc' = "done"
                /\ exit_status' = 0
                /\ report' = <<report_rows(baseline, experimental)>>
                /\ stdout' = stdout \o <<"ReportHeader", "Report">>
    /\ UNCHANGED <<entry, exists, has_tiktoken, runner, heap, res, base_res,
                   exp_res, target_file, line_num,
                   out1, out2, now, start, running,
                   cmd_result, issued, args, ret>>

\* the script, from `if __name__ == "__main__"` on
Init ==
    /\ Untouched
    /\ NoObjects
    /\ entry = "main"
    /\ pc = "main"
    /\ exists \in BOOLEAN
    /\ has_tiktoken \in BOOLEAN
    /\ stdout = <<StartupLine>>
    /\ heap = [t \in TrackerIds |-> NotCreated]
    /\ args = <<>>

Next ==
    \/ main_check
    \/ run_baseline_begin
    \/ run_git_ai_begin
    \/ run_cmd_spawn
    \/ tick
    \/ \E o \in NarrowOutcomes(pc) : run_cmd_complete(o)
    \/ run_baseline_return
    \/ run_git_ai_return
    \/ print_report

Spec == Init /\ [][Next]_vars

\* ---------------------------------------------- one driver called on its own
DriverInit ==
    /\ Untouched
    /\ runner = <<[cwd |-> "target_dir"]>>
    /\ base_res = NoTracker
    /\ exp_res = NoTracker
    /\ entry \in {"run_baseline", "run_git_ai"}
    /\ pc = (IF entry = "run_baseline" THEN "b0" ELSE "g0")
    /\ exists = TRUE
    /\ has_tiktoken \in BOOLEAN
    /\ stdout = <<StartupLine, "Target">>
    /\ heap = [t \in TrackerIds |-> NotCreated]
    /\ args = <<>>

DriverNext ==
    \/ run_baseline_begin
    \/ run_git_ai_begin
    \/ run_cmd_spawn
    \/ tick
    \/ \E o \in WideOutcomes(pc) : run_cmd_complete(o)
    \/ run_baseline_return
    \/ run_git_ai_return

SpecDrivers == DriverInit /\ [][DriverNext]_vars

\* ----------------------------------------------- print_report called on its own
\* a text of n chunks
Filler(n) == [i \in 1..n |-> "x"]

\* the tracker a driver has after running commands whose outputs have the
\* given sizes, every command taking one clock unit
RECURSIVE TrackerWith(_, _)
TrackerWith(name, sizes) ==
    IF sizes = <<>> THEN NewTracker(name)
    ELSE add_step(TrackerWith(name, SubSeq(sizes, 1, Len(sizes) - 1)),
                  <<"cat">>, <<"cat", " ", "f">>,
                  Filler(sizes[Len(sizes)]), 1)

\* the output sizes tried: every list of at most MaxSteps small sizes, and the
\* two lists of the worked example
SizeLists ==
    TextsUpTo({0, 1, 3}, MaxSteps) \cup {<<100, 200, 50>>, <<30, 40>>}

ReportInit ==
    /\ Untouched
    /\ runner = <<>>
    /\ base_res = "A"
    /\ exp_res = "B"
    /\ entry = "print_report"
    /\ pc = "report"
    /\ exists = TRUE
    /\ has_tiktoken \in BOOLEAN
    /\ stdout = <<StartupLine>>
    /\ args \in (SizeLists \X SizeLists)
    /\ heap = [t \in TrackerIds |->
                  IF t = "A" THEN TrackerWith("Baseline (grep/cat)", args[1])
                  ELSE TrackerWith("Experimental (git-ai)", args[2])]

ReportNext == print_report

SpecReport == ReportInit /\ [][ReportNext]_vars

\* ------------------------------------------------------------- properties
IsPrefix(s, t) == Len(s) <= Len(t) /\ SubSeq(t, 1, Len(s)) = s

\* the token counts of a tracker's steps, in order
TokensOf(tr) == [i \in 1..Len(tr.steps) |-> tr.steps[i].tokens]

\* C2: every state change leaves each tracker's recorded steps as a prefix of
\* its new step list, and the Nth recorded step is the Nth command its driver
\* issued
C2_AppendOnlyInOrder ==
    /\ [][\A t \in TrackerIds : IsPrefix(heap[t].steps, heap'[t].steps)]_vars
    /\ [](\A t \in TrackerIds : \A n \in 1..Len(heap[t].steps) :
              /\ n <= Len(issued[t])
              /\ heap[t].steps[n].command = issued[t][n])

\* the baseline driver has returned a tracker of five steps, the second and
\* the fifth with different commands
C2_Witness ==
    /\ entry = "run_baseline" /\ pc = "returned"
    /\ Len(heap["A"].steps) = 5
    /\ heap["A"].steps[2].command = issued["A"][2]
    /\ heap["A"].steps[5].command # heap["A"].steps[2].command

\* C3: print_report raises no division error, each percentage change is 0
\* when its baseline denominator is 0, and the average of a tracker without
\* steps is 0
C3_ZeroGuards ==
    /\ pc # "raised"
    /\ (entry = "print_report" /\ pc = "done") =>
          LET rows == report[1]
              baseline == heap[base_res]
              experimental == heap[exp_res]
          IN  /\ baseline.total_tokens = 0 => rows.tokens[3] = 0
              /\ Len(baseline.steps) = 0 => rows.steps[3] = 0
              /\ (baseline.total_tokens = 0 \/ Len(baseline.steps) = 0) =>
                     rows.density[3] = 0
              /\ Len(baseline.steps) = 0 => rows.density[1] = 0
              /\ Len(experimental.steps) = 0 => rows.density[2] = 0

\* the report was printed for an empty baseline tracker and an experimental
\* tracker with tokens
C3_Witness ==
    /\ entry = "print_report" /\ pc = "done"
    /\ Len(heap[base_res].steps) = 0
    /\ heap[exp_res].total_tokens > 0
    /\ report[1].tokens[3] = 0

\* the report was printed for a baseline whose steps all have 0 tokens
C3_WitnessZeroTokens ==
    /\ entry = "print_report" /\ pc = "done"
    /\ Len(heap[base_res].steps) = 2
    /\ heap[base_res].total_tokens = 0
    /\ heap[exp_res].total_tokens > 0

\* C4: for baseline token counts [100, 200, 50] and experimental token
\* counts [30, 40] the report shows 350 vs 70 (-80.0%), 3 vs 2 (-33.3%) and
\* 116.7 vs 35.0 (-70.0%)
C4_WorkedExample ==
    (/\ entry = "print_report" /\ pc \in {"done", "raised"}
     /\ TokensOf(heap[base_res]) = <<100, 200, 50>>
     /\ TokensOf(heap[exp_res]) = <<30, 40>>) =>
        /\ pc = "done"
        /\ report[1].tokens = <<350, 70, -800>>
        /\ report[1].steps = <<3, 2, -333>>
        /\ report[1].density = <<1167, 350, -700>>

\* the report was printed for exactly those two trackers
C4_Witness ==
    /\ entry = "print_report" /\ pc = "done"
    /\ TokensOf(heap[base_res]) = <<100, 200, 50>>
    /\ TokensOf(heap[exp_res]) = <<30, 40>>
    /\ report # <<>>

\* the path C5 expects steps 2 and 3 to use: the first line of the first
\* step's output that, stripped, ends in the file name, or else the default
ExpectedTarget(text) ==
    LET lines == split_lines(text)
        matching == {i \in 1..Len(lines) : endswith_java(strip(lines[i]))}
    IN  IF matching = {}
        THEN <<"ruoyi-system/src/main/java/com/ruoyi/system/service/impl/",
               "SysUserServiceImpl.java">>
        ELSE strip(lines[CHOOSE i \in matching : \A j \in matching : i <= j])

\* how many lines of the text, stripped, end in the file name
MatchingLines(text) ==
    Cardinality({i \in 1..Len(split_lines(text)) :
                    endswith_java(strip(split_lines(text)[i]))})

\* C5: the grep of step 2 and the cat of step 3 use the default path when no
\* line of the first step's output ends (once stripped) in the file name, and
\* the first such line, stripped, otherwise; the driver then still returns
\* with all five steps
C5_TargetFallback ==
    entry = "run_baseline" =>
        LET expected == ExpectedTarget(out1)
        IN
        /\ Len(issued["A"]) >= 2 =>
              issued["A"][2] =
                  <<"grep", " ", "-n", " ", "'List<SysUser>", " ",
                    "selectUserList'", " ">> \o expected
        /\ Len(issued["A"]) >= 3 =>
              issued["A"][3] = <<"cat", " ">> \o expected
        /\ pc = "returned" =>
              /\ Len(heap["A"].steps) = 5
              /\ heap["A"].steps[2].command = issued["A"][2]
              /\ heap["A"].steps[3].command = issued["A"][3]

\* the baseline driver returned after a first step whose non-empty output
\* had no matching line, having run cat on the default path
C5_Witness ==
    /\ entry = "run_baseline" /\ pc = "returned"
    /\ out1 # <<>>
    /\ MatchingLines(out1) = 0
    /\ heap["A"].steps[3].command = CmdCat(DefaultTarget)

\* the baseline driver returned after a first step whose first matching line
\* had surrounding whitespace and was followed by another matching line
C5_WitnessFound ==
    /\ entry = "run_baseline" /\ pc = "returned"
    /\ MatchingLines(out1) = 2
    /\ heap["A"].steps[3].command = <<"cat", " ", "x", JAVA>>

\* C6: with a target directory that does not exist the script prints an error
\* and exits with a non-zero status, having run no command and created no
\* tracker, step or runner
C6_MissingDirectoryExits ==
    (entry = "main" /\ ~exists /\ pc # "main") =>
        /\ pc = "exited"
        /\ exit_status # 0 /\ exit_status # -1
        /\ \E i \in 1..Len(stdout) : stdout[i] = "Error"
        /\ \A t \in TrackerIds :
              /\ ~heap[t].created
              /\ heap[t].steps = <<>>
              /\ issued[t] = <<>>
        /\ running = <<>>
        /\ runner = <<>>
        /\ report = <<>>

\* the script has exited because the directory does not exist
C6_Witness ==
    /\ entry = "main" /\ ~exists /\ pc = "exited" /\ exit_status = 1

\* C8: every run_cmd call adds exactly one step to the given tracker and to no
\* other, and returns the captured text: the failure's text when the spawn
\* raised, else stdout, followed by "\n[STDERR]\n" and stderr only when stderr
\* is not empty; the driver goes on with its next statement; and steps are
\* added by nothing else
C8_RunCmdRecordsOneStep ==
    [][ /\ (running # <<>> /\ running' = <<>>) =>
              LET o == cmd_result'[1].outcome
                  text == cmd_result'[1].output
                  new == heap'[res].steps
              IN  /\ Len(new) = Len(heap[res].steps) + 1
                  /\ new[Len(new)].command = running[1]
                  /\ new[Len(new)].output_len = len(text)
                  /\ \A t \in TrackerIds \ {res} : heap'[t] = heap[t]
                  /\ o.raised => text = o.msg
                  /\ (~o.raised /\ o.stderr = <<>>) => text = o.stdout
                  /\ (~o.raised /\ o.stderr # <<>>) =>
                        text = o.stdout \o <<"\n", "[STDERR]", "\n">>
                                   \o o.stderr
                  /\ pc' # pc /\ pc' \in CmdPcs \cup {"b_return", "g_return"}
        /\ (\E t \in TrackerIds : Len(heap'[t].steps) # Len(heap[t].steps))
              => (running # <<>> /\ running' = <<>>)
      ]_vars

\* a run_cmd call has returned text with a [STDERR] block after a non-empty
\* stdout, as the first step of its tracker
C8_Witness ==
    /\ cmd_result # <<>>
    /\ ~cmd_result[1].outcome.raised
    /\ cmd_result[1].outcome.stdout # <<>>
    /\ cmd_result[1].outcome.stderr # <<>>
    /\ Len(heap[cmd_result[1].tracker].steps) = 1

\* a run_cmd call has returned the text of a spawn failure
C8_WitnessRaised ==
    /\ cmd_result # <<>>
    /\ cmd_result[1].outcome.raised
    /\ cmd_result[1].output = <<"[Errno", " ", "2]">>

\* C9: whatever the commands did, the baseline driver returns a tracker of
\* exactly its five commands and the experimental driver one of exactly its
\* four, each issued once and in order; and a driver that has not returned
\* can always take a step
C9_FixedStepCounts ==
    /\ (entry = "run_baseline" /\ pc = "returned") =>
          /\ ret = <<"A">>
          /\ Len(heap["A"].steps) = 5
          /\ issued["A"] = <<CmdFind, CmdGrepDef(target_file),
                             CmdCat(target_file), CmdGrepCallers,
                             CmdCat(CallerFile)>>
    /\ (entry = "run_git_ai" /\ pc = "returned") =>
          /\ ret = <<"B">>
          /\ Len(heap["B"].steps) = 4
          /\ issued["B"] = <<CmdQuery, CmdCallers, CmdChain, CmdSemantic>>
    /\ (entry \in {"run_baseline", "run_git_ai"} /\ pc # "returned") =>
          ENABLED DriverNext

\* the baseline driver returned although every one of its commands failed to
\* spawn
C9_Witness ==
    /\ entry = "run_baseline" /\ pc = "returned"
    /\ Len(heap["A"].steps) = 5
    /\ \A n \in 1..5 : heap["A"].steps[n].output_len = 9

\* the experimental driver returned although every command printed nothing
C9_WitnessEmpty ==
    /\ entry = "run_git_ai" /\ pc = "returned"
    /\ Len(heap["B"].steps) = 4
    /\ heap["B"].total_tokens = 0

\* C10: at most one command executes at a time; no experimental command is
\* issued before the baseline driver has returned with all five steps; the
\* report is printed only after both drivers returned; and once the baseline
\* driver has returned, its tracker never changes
C10_Sequential ==
    /\ [](/\ Len(running) <= 1
          /\ issued["B"] # <<>> =>
                /\ base_res = "A"
                /\ Len(heap["A"].steps) = 5
                /\ Len(issued["A"]) = 5
          /\ (report # <<>> \/ pc \in {"done", "raised"}) =>
                /\ base_res = "A" /\ exp_res = "B"
                /\ Len(heap["A"].steps) = 5 /\ Len(heap["B"].steps) = 4
                /\ running = <<>>)
    /\ [][base_res # NoTracker => heap'[base_res] = heap[base_res]]_vars

\* the script has printed its report after both drivers ran
C10_Witness ==
    /\ entry = "main" /\ pc = "done"
    /\ report # <<>>
    /\ Len(heap["A"].steps) = 5 /\ Len(heap["B"].steps) = 4
    /\ heap["B"].total_time > 0

====
